---- MODULE Spec2Model ----
(***************************************************************************)
(* Model of facebookadsanalise.py: the module-level pipeline               *)
(*   carregar_dados -> tratar_dados -> calcular_metricas_demograficas ->   *)
(*   main (gerar_resumo_executivo and the two visualizar functions)       *)
(* over a pandas DataFrame.  A DataFrame is a record                       *)
(*   [kind |-> "DataFrame", cols |-> set of column names, rows |-> Seq]    *)
(* whose rows are functions from column name to cell value; Python's None  *)
(* is the record [kind |-> "None"].                                        *)
(*                                                                         *)
(* float64 cells are modelled as exact values: a record                    *)
(*   [k |-> "num", n |-> numerator, d |-> denominator]  (reduced, d > 0)   *)
(* or [k |-> "nan"] / [k |-> "inf"] for the IEEE results of x/0.           *)
(* All inputs are non-negative, so -inf never arises.                      *)
(***************************************************************************)
EXTENDS Integers, Sequences, FiniteSets, TLC

VARIABLES arquivo, dados, metricas_demograficas, pc, exc, resumo,
          engajamento_por_idade

vars == <<arquivo, dados, metricas_demograficas, pc, exc, resumo,
          engajamento_por_idade>>

----------------------------------------------------------------------------
(* Bounds of the input domain *)

MaxRows == 3

----------------------------------------------------------------------------
(* Values *)

None == [kind |-> "None"]

NA == "NA"          \* missing cell of an object (string) column
NaNCell == -1       \* missing cell of a numeric column (inputs are >= 0)

StrCols == {"gender", "age", "reporting_start", "reporting_end"}

IsNone(x) == x.kind = "None"

DataFrame(c, r) == [kind |-> "DataFrame", cols |-> c, rows |-> r]

Range(s) == {s[i] : i \in 1..Len(s)}

\* ascending lexicographic order of every string an input cell can hold
Lexicon == <<"30-34", "35-39", "female", "male", "other">>

StrRank(s) == CHOOSE i \in 1..Len(Lexicon) : Lexicon[i] = s

StrLess(a, b) == StrRank(a) < StrRank(b)

----------------------------------------------------------------------------
(* float64 arithmetic, exact *)

RECURSIVE GCD(_, _)
GCD(a, b) == IF b = 0 THEN a ELSE GCD(b, a % b)

NaN == [k |-> "nan", n |-> 0, d |-> 1]
Inf == [k |-> "inf", n |-> 0, d |-> 1]
Num(n, d) == LET g == GCD(n, d) IN [k |-> "num", n |-> n \div g, d |-> d \div g]

\* a / b for non-negative integers: numpy gives nan for 0/0 and inf for x/0
IntDiv(a, b) == IF b = 0 THEN (IF a = 0 THEN NaN ELSE Inf) ELSE Num(a, b)

\* x * c for a positive integer constant c
FMul(x, c) == IF x.k = "num" THEN Num(x.n * c, x.d) ELSE x

FAdd(x, y) ==
    IF x.k = "nan" \/ y.k = "nan" THEN NaN
    ELSE IF x.k = "inf" \/ y.k = "inf" THEN Inf
    ELSE Num(x.n * y.d + y.n * x.d, x.d * y.d)

FLess(x, y) ==
    /\ x.k # "nan" /\ y.k # "nan"
    /\ \/ x.k = "num" /\ y.k = "inf"
       \/ x.k = "num" /\ y.k = "num" /\ x.n * y.d < y.n * x.d

\* numpy's rint: the nearest integer to n/d, a tie going to the even neighbour
rint(n, d) ==
    LET q == n \div d
        r == n % d
    IN  IF 2 * r < d THEN q
        ELSE IF 2 * r > d THEN q + 1
        ELSE IF q % 2 = 0 THEN q ELSE q + 1

\* Series.round(2), i.e. numpy.round(x, 2) = rint(x * 100) / 100
round2(x) == IF x.k = "num" THEN Num(rint(x.n * 100, x.d), 100) ELSE x

----------------------------------------------------------------------------
(* Input domain: the parsed content of data.csv *)

colunas_remover == {"reporting_start", "reporting_end", "fb_campaign_id"}

RawCols == colunas_remover \cup
           {"age", "gender", "impressions", "clicks", "spent", "total_conversion"}

\* <<impressions, clicks, spent, total_conversion, age>> of one row
Profiles ==
    { <<64, 8, 1, 1, "30-34">>,     \* spent/clicks = 0.125, 1000*spent/impressions = 15.625
      <<200, 10, 5, 0, "35-39">>,   \* engagement 5.0
      <<0, 0, 0, 0, "30-34">>,      \* 0/0
      <<0, 8, 3, 1, "35-39">>,      \* clicks > impressions = 0
      <<8, 0, 1, 0, "30-34">> }     \* no clicks

Genders == {"female", "male", "other"}

RawRow(p, g) ==
    [reporting_start |-> "17/08/2017", reporting_end |-> "17/08/2017",
     fb_campaign_id |-> 1, age |-> p[5], gender |-> g,
     impressions |-> p[1], clicks |-> p[2], spent |-> p[3],
     total_conversion |-> p[4]]

\* the complete rows, one row without gender and one without spent
RawRows ==
    {RawRow(p, g) : p \in Profiles, g \in Genders}
    \cup {RawRow(<<64, 8, 1, 1, "30-34">>, NA),
          RawRow(<<64, 8, NaNCell, 1, "30-34">>, "female")}

SeqsUpTo(S, n) == UNION {[1..k -> S] : k \in 0..n}

\* what pd.read_csv can deliver: a frame of 0..MaxRows rows, or no file at all
Arquivos == {DataFrame(RawCols, rs) : rs \in SeqsUpTo(RawRows, MaxRows)} \cup {None}

----------------------------------------------------------------------------
(* carregar_dados *)

\* the FileNotFoundError branch returns None, otherwise the frame read
carregar_dados(a) == a

----------------------------------------------------------------------------
(* tratar_dados *)

\* DataFrame.drop(columns=...): KeyError when a label is absent
CanDrop(df, cs) == cs \subseteq df.cols

DropColumns(df, cs) ==
    DataFrame(df.cols \ cs,
              [i \in 1..Len(df.rows) |-> [c \in df.cols \ cs |-> df.rows[i][c]]])

isna(c, v) == IF c \in StrCols THEN v = NA ELSE v = NaNCell

HasNA(r) == \E c \in DOMAIN r : isna(c, r[c])

\* DataFrame.dropna(): a row with any missing cell goes
dropna(df) == DataFrame(df.cols, SelectSeq(df.rows, LAMBDA r : ~HasNA(r)))

\* LabelEncoder.fit_transform: classes_ are the sorted distinct values and a
\* value's code is its index in classes_
fit_transform(col) ==
    [i \in 1..Len(col) |-> Cardinality({u \in Range(col) : StrLess(u, col[i])})]

EncodeGender(df) ==
    LET codes == fit_transform([i \in 1..Len(df.rows) |-> df.rows[i]["gender"]])
    IN  DataFrame(df.cols,
                  [i \in 1..Len(df.rows) |->
                      [df.rows[i] EXCEPT !["gender"] = codes[i]]])

\* the value returned and the exception raised ("none": returned normally)
tratar_dados(dados_brutos) ==
    IF IsNone(dados_brutos) THEN [ret |-> None, exc |-> "none"]
    ELSE IF ~CanDrop(dados_brutos, colunas_remover)
         THEN [ret |-> None, exc |-> "KeyError"]
    ELSE [ret |-> EncodeGender(dropna(DropColumns(dados_brutos, colunas_remover))),
          exc |-> "none"]

----------------------------------------------------------------------------
(* calcular_metricas_demograficas *)

RECURSIVE SortedSeq(_)
SortedSeq(S) ==
    IF S = {} THEN <<>>
    ELSE LET m == CHOOSE x \in S : \A y \in S : x <= y
         IN  <<m>> \o SortedSeq(S \ {m})

RECURSIVE SumInts(_)
SumInts(s) == IF s = <<>> THEN 0 ELSE Head(s) + SumInts(Tail(s))

RECURSIVE SumFloats(_)
SumFloats(s) == IF s = <<>> THEN Num(0, 1) ELSE FAdd(Head(s), SumFloats(Tail(s)))

Column(rows, c) == [i \in 1..Len(rows) |-> rows[i][c]]

\* Series.sum() of an integer (or exactly summed float) column
SumCol(rows, c) == SumInts(Column(rows, c))

\* Series.mean() with skipna=True: NaN cells are left out, an empty rest is NaN
MeanFloats(s) ==
    LET kept == SelectSeq(s, LAMBDA x : x.k # "nan")
        total == SumFloats(kept)
    IN  IF kept = <<>> THEN NaN
        ELSE IF total.k = "num" THEN Num(total.n, total.d * Len(kept))
        ELSE total

\* dados["Engajamento"] = (dados["clicks"] / dados["impressions"]) * 100
Engajamento(r) == FMul(IntDiv(r["clicks"], r["impressions"]), 100)

\* assigning the column: the frame handed in gains it, row by row
WithEngajamento(df) ==
    DataFrame(df.cols \cup {"Engajamento"},
              [i \in 1..Len(df.rows) |->
                  [c \in df.cols \cup {"Engajamento"} |->
                      IF c = "Engajamento" THEN Engajamento(df.rows[i])
                      ELSE df.rows[i][c]]])

\* the keys in order of first appearance, as groupby(sort=False) would give them
RECURSIVE FirstSeen(_, _)
FirstSeen(s, seen) ==
    IF s = <<>> THEN <<>>
    ELSE IF Head(s) \in seen THEN FirstSeen(Tail(s), seen)
    ELSE <<Head(s)>> \o FirstSeen(Tail(s), seen \cup {Head(s)})

GroupKeysFirstSeen(rows) == FirstSeen(Column(rows, "gender"), {})

\* groupby(["gender"]): sort=True, so the keys come out ascending
GroupKeys(rows) == SortedSeq(Range(Column(rows, "gender")))

\* a grouping that is cumulative over the keys: a row lands in every group
\* whose key is at least its own
GroupRowsUpTo(rows, g) == SelectSeq(rows, LAMBDA r : r["gender"] <= g)

GroupRows(rows, g) == SelectSeq(rows, LAMBDA r : r["gender"] = g)

\* .agg({...}).reset_index() followed by the CPC and CPM columns
GroupSummary(rows, g) ==
    LET grp == GroupRows(rows, g)
        spent == SumCol(grp, "spent")
        clicks == SumCol(grp, "clicks")
        impressions == SumCol(grp, "impressions")
    IN  [gender |-> g,
         impressions |-> impressions,
         clicks |-> clicks,
         Engajamento |-> MeanFloats(Column(grp, "Engajamento")),
         total_conversion |-> SumCol(grp, "total_conversion"),
         spent |-> spent,
         CPC |-> round2(IntDiv(spent, clicks)),
         CPM |-> round2(FMul(IntDiv(spent, impressions), 1000))]

\* arg: the frame handed in as it is when the call returns; ret: the value returned
calcular_metricas_demograficas(d) ==
    IF IsNone(d) THEN [arg |-> d, ret |-> None, exc |-> "none"]
    ELSE LET aug == WithEngajamento(d)
             keys == GroupKeys(aug.rows)
         IN  [arg |-> aug,
              ret |-> [kind |-> "DataFrame",
                       rows |-> [i \in 1..Len(keys) |-> GroupSummary(aug.rows, keys[i])]],
              exc |-> "none"]

----------------------------------------------------------------------------
(* gerar_resumo_executivo and the visualizar functions *)

RECURSIVE SortedStrSeq(_)
SortedStrSeq(S) ==
    IF S = {} THEN <<>>
    ELSE LET m == CHOOSE x \in S : \A y \in S : x = y \/ StrLess(x, y)
         IN  <<m>> \o SortedStrSeq(S \ {m})

\* dados.groupby("age")["Engajamento"].mean(): one entry per age, keys ascending
MeanByAge(rows) ==
    LET keys == SortedStrSeq(Range(Column(rows, "age")))
    IN  [i \in 1..Len(keys) |->
            [age |-> keys[i],
             Engajamento |->
                 MeanFloats(Column(SelectSeq(rows, LAMBDA r : r["age"] = keys[i]),
                                   "Engajamento"))]]

\* Series.idxmax(): the first position of the largest non-NaN value; 0 when
\* there is none (an empty or all-NaN Series)
idxmax(s) ==
    LET ok == {i \in 1..Len(s) :
                  /\ s[i].k # "nan"
                  /\ \A j \in 1..Len(s) : ~FLess(s[i], s[j])}
    IN  IF ok = {} THEN 0 ELSE CHOOSE i \in ok : \A j \in ok : i <= j

\* what idxmax (and the .loc that follows it) raises when there is no maximum:
\* ValueError on an empty Series; on an all-NaN one ValueError or, where idxmax
\* still returns NaN, the KeyError of the lookup
NoMaxErrors(s) == IF s = <<>> THEN {"ValueError"} ELSE {"ValueError", "KeyError"}

\* the outcomes of a call: the figures printed (out) or the exception raised
gerar_resumo_executivo(d, m) ==
    IF IsNone(d) \/ IsNone(m) THEN {[out |-> None, exc |-> "none"]}
    ELSE
    LET total_impressoes == SumCol(d.rows, "impressions")
        total_cliques == SumCol(d.rows, "clicks")
        total_gastos == SumCol(d.rows, "spent")
        total_conversoes == SumCol(d.rows, "total_conversion")
        eng == Column(m.rows, "Engajamento")
        por_idade == MeanByAge(d.rows)
        eng_idade == Column(por_idade, "Engajamento")
    IN  IF idxmax(eng) = 0
        THEN {[out |-> None, exc |-> e] : e \in NoMaxErrors(eng)}
        ELSE IF "Engajamento" \notin d.cols
        THEN {[out |-> None, exc |-> "KeyError"]}
        ELSE IF idxmax(eng_idade) = 0
        THEN {[out |-> None, exc |-> e] : e \in NoMaxErrors(eng_idade)}
        ELSE {[out |-> [kind |-> "Resumo",
                        total_impressoes |-> total_impressoes,
                        total_cliques |-> total_cliques,
                        ctr_geral |-> FMul(IntDiv(total_cliques, total_impressoes), 100),
                        total_gastos |-> total_gastos,
                        total_conversoes |-> total_conversoes,
                        custo_conversao |-> IntDiv(total_gastos, total_conversoes),
                        melhor_genero |-> m.rows[idxmax(eng)],
                        melhor_idade |-> por_idade[idxmax(eng_idade)]],
               exc |-> "none"]}

\* the Series the line chart is drawn from
visualizar_engajamento_por_idade(d) ==
    IF IsNone(d) THEN [out |-> None, exc |-> "none"]
    ELSE IF "Engajamento" \notin d.cols THEN [out |-> None, exc |-> "KeyError"]
    ELSE [out |-> [kind |-> "Series", rows |-> MeanByAge(d.rows)], exc |-> "none"]

----------------------------------------------------------------------------
(* The script: module-level statements, then main() *)

Init ==
    /\ arquivo \in Arquivos
    /\ dados = None
    /\ metricas_demograficas = None
    /\ pc = "carregar"
    /\ exc = "none"
    /\ resumo = None
    /\ engajamento_por_idade = None

\* line 51
Carregar ==
    /\ pc = "carregar"
    /\ dados' = carregar_dados(arquivo)
    /\ pc' = "tratar"
    /\ UNCHANGED <<arquivo, metricas_demograficas, exc, resumo, engajamento_por_idade>>

\* lines 100-101; an exception here is uncaught and ends the script
Tratar ==
    /\ pc = "tratar"
    /\ IF IsNone(dados)
       THEN /\ pc' = "calcular"
            /\ UNCHANGED <<dados, exc>>
       ELSE LET r == tratar_dados(dados)
            IN  IF r.exc = "none"
                THEN /\ dados' = r.ret
                     /\ pc' = "calcular"
                     /\ UNCHANGED exc
                ELSE /\ exc' = r.exc
                     /\ pc' = "fim"
                     /\ UNCHANGED dados
    /\ UNCHANGED <<arquivo, metricas_demograficas, resumo, engajamento_por_idade>>

\* lines 155-156: the global dados is the frame handed in, so what the call
\* does to its argument shows in dados
Calcular ==
    /\ pc = "calcular"
    /\ IF IsNone(dados)
       THEN UNCHANGED <<dados, metricas_demograficas>>
       ELSE LET r == calcular_metricas_demograficas(dados)
            IN  /\ dados' = r.arg
                /\ metricas_demograficas' = r.ret
    /\ pc' = "main"
    /\ UNCHANGED <<arquivo, exc, resumo, engajamento_por_idade>>

\* lines 336-342
Main ==
    /\ pc = "main"
    /\ pc' = IF IsNone(dados) \/ IsNone(metricas_demograficas) THEN "fim" ELSE "resumo"
    /\ UNCHANGED <<arquivo, dados, metricas_demograficas, exc, resumo,
                   engajamento_por_idade>>

\* line 347, inside main's try: an exception is caught at line 357
GerarResumo ==
    /\ pc = "resumo"
    /\ \E o \in gerar_resumo_executivo(dados, metricas_demograficas) :
          /\ resumo' = o.out
          /\ exc' = o.exc
          /\ pc' = IF o.exc = "none" THEN "vis_genero" ELSE "fim"
    /\ UNCHANGED <<arquivo, dados, metricas_demograficas, engajamento_por_idade>>

\* line 351: draws the bar chart from metricas_demograficas, changes nothing
VisualizarGenero ==
    /\ pc = "vis_genero"
    /\ pc' = "vis_idade"
    /\ UNCHANGED <<arquivo, dados, metricas_demograficas, exc, resumo,
                   engajamento_por_idade>>

\* line 352
VisualizarIdade ==
    /\ pc = "vis_idade"
    /\ LET o == visualizar_engajamento_por_idade(dados)
       IN  /\ engajamento_por_idade' = o.out
           /\ exc' = o.exc
    /\ pc' = "fim"
    /\ UNCHANGED <<arquivo, dados, metricas_demograficas, resumo>>

Next ==
    \/ Carregar
    \/ Tratar
    \/ Calcular
    \/ Main
    \/ GerarResumo
    \/ VisualizarGenero
    \/ VisualizarIdade

Spec == Init /\ [][Next]_vars

----------------------------------------------------------------------------
(* The public operations called directly, without the script's None guards: *)
(* tratar_dados on a frame (or None), optionally tratar_dados again on its  *)
(* result, then calcular_metricas_demograficas and gerar_resumo_executivo.  *)

InitCall ==
    /\ arquivo \in Arquivos
    /\ dados = arquivo
    /\ metricas_demograficas = None
    /\ pc = "c_tratar"
    /\ exc = "none"
    /\ resumo = None
    /\ engajamento_por_idade = None

ChamarTratar ==
    /\ pc = "c_tratar"
    /\ LET r == tratar_dados(dados)
       IN  /\ dados' = r.ret
           /\ exc' = r.exc
    /\ pc' = "c_tratado"
    /\ UNCHANGED <<arquivo, metricas_demograficas, resumo, engajamento_por_idade>>

\* tratar_dados applied to what tratar_dados returned
ChamarTratarDeNovo ==
    /\ pc = "c_tratado"
    /\ exc = "none"
    /\ LET r == tratar_dados(dados)
       IN  /\ dados' = IF r.exc = "none" THEN r.ret ELSE dados
           /\ exc' = r.exc
    /\ pc' = "c_retratado"
    /\ UNCHANGED <<arquivo, metricas_demograficas, resumo, engajamento_por_idade>>

ChamarCalcular ==
    /\ pc \in {"c_tratado", "c_retratado"}
    /\ exc = "none"
    /\ LET r == calcular_metricas_demograficas(dados)
       IN  /\ dados' = r.arg
           /\ metricas_demograficas' = r.ret
           /\ exc' = r.exc
    /\ pc' = "c_calculado"
    /\ UNCHANGED <<arquivo, resumo, engajamento_por_idade>>

ChamarResumo ==
    /\ pc = "c_calculado"
    /\ exc = "none"
    /\ \E o \in gerar_resumo_executivo(dados, metricas_demograficas) :
          /\ resumo' = o.out
          /\ exc' = o.exc
    /\ pc' = "c_resumido"
    /\ UNCHANGED <<arquivo, dados, metricas_demograficas, engajamento_por_idade>>

NextCall ==
    \/ ChamarTratar
    \/ ChamarTratarDeNovo
    \/ ChamarCalcular
    \/ ChamarResumo

SpecCall == InitCall /\ [][NextCall]_vars

----------------------------------------------------------------------------
(* Properties *)

\* the script is past line 101 and tratar_dados was called on a frame
TratarRan == pc \notin {"carregar", "tratar"} /\ ~IsNone(arquivo)

\* the script is past line 156 and calcular_metricas_demograficas was called
CalcularRan == pc \notin {"carregar", "tratar", "calcular"} /\ ~IsNone(dados)

\* the rows of the input that dropna keeps, in order
CompleteRows == SelectSeq(arquivo.rows, LAMBDA r : ~HasNA(r))

Codes == {dados.rows[i]["gender"] : i \in 1..Len(dados.rows)}

RowsOf(g) == {i \in 1..Len(dados.rows) : dados.rows[i]["gender"] = g}

RECURSIVE SumOver(_, _, _)
SumOver(rows, I, c) ==
    IF I = {} THEN 0
    ELSE LET i == CHOOSE j \in I : TRUE
         IN  rows[i][c] + SumOver(rows, I \ {i}, c)

Total(rows, c) == SumOver(rows, 1..Len(rows), c)

\* n/d to the nearest integer, a tie going up
HalfUp(n, d) == (2 * n + d) \div (2 * d)

\* C1: whenever the frame handed to calcular_metricas_demograficas holds a row
\* with impressions = 0, the call ends in DivisionByZeroError and yields neither
\* an Engajamento column nor a grouped table.
C1_ZeroImpressionsRaises ==
    (CalcularRan /\ \E i \in 1..Len(dados.rows) : dados.rows[i]["impressions"] = 0)
        => /\ exc = "DivisionByZeroError"
           /\ IsNone(metricas_demograficas)
           /\ "Engajamento" \notin dados.cols

\* C2: whenever some gender group's summed clicks or summed impressions is zero,
\* the call ends in DivisionByZeroError instead of returning a grouped table.
C2_ZeroGroupTotalRaises ==
    (CalcularRan /\ \E g \in Codes :
                       \/ SumOver(dados.rows, RowsOf(g), "clicks") = 0
                       \/ SumOver(dados.rows, RowsOf(g), "impressions") = 0)
        => /\ exc = "DivisionByZeroError"
           /\ IsNone(metricas_demograficas)

\* C3: whenever the input holds a complete row whose gender is neither "female"
\* nor "male", tratar_dados ends in DataValidationError.
C3_UnknownGenderRaises ==
    (TratarRan /\ \E i \in 1..Len(CompleteRows) :
                     CompleteRows[i]["gender"] \notin {"female", "male"})
        => exc = "DataValidationError"

\* C4: in the frame tratar_dados returns, every "female" row carries gender 0
\* and every "male" row carries gender 1, whatever else the input holds.
C4_FixedEncoding ==
    TratarRan =>
        /\ Len(dados.rows) = Len(CompleteRows)
        /\ \A i \in 1..Len(CompleteRows) :
              /\ CompleteRows[i]["gender"] = "female" => dados.rows[i]["gender"] = 0
              /\ CompleteRows[i]["gender"] = "male" => dados.rows[i]["gender"] = 1

\* C5: tratar_dados applied to a frame tratar_dados returned succeeds and
\* returns an equal frame.
C5_CleanIdempotent ==
    [][pc' = "c_retratado" => (exc' = "none" /\ dados' = dados)]_vars

NoData(d) == IsNone(d) \/ d.rows = <<>>

\* C6: an operation handed None or a frame without rows ends in NoDataError.
C6_NoDataRaises ==
    /\ (pc = "c_tratado" /\ NoData(arquivo)) => exc = "NoDataError"
    /\ (pc = "c_calculado" /\ NoData(dados)) => exc = "NoDataError"
    /\ (pc = "c_resumido" /\ NoData(dados)) => exc = "NoDataError"

C8_KeysAscendingDistinct ==
    CalcularRan =>
        LET m == metricas_demograficas.rows
        IN  /\ \A i, j \in 1..Len(m) : i < j => m[i]["gender"] < m[j]["gender"]
            /\ {m[i]["gender"] : i \in 1..Len(m)} = Codes

\* rows arriving with code 1 before code 0, one code repeated
C8_Witness ==
    /\ pc = "main"
    /\ ~IsNone(dados)
    /\ Len(dados.rows) = 3
    /\ dados.rows[1]["gender"] = 1
    /\ dados.rows[2]["gender"] = 0
    /\ dados.rows[3]["gender"] = 1
    /\ Len(metricas_demograficas.rows) = 2

\* C9: calcular_metricas_demograficas leaves the frame it was handed as it was.
C9_ArgumentUnchanged ==
    [][pc = "calcular" => dados' = dados]_vars

\* C10: for a group whose summed clicks and impressions are non-zero, CPC is
\* spent/clicks and CPM is 1000*spent/impressions to the nearest hundredth, a
\* tie going up.
C10_RoundHalfUp ==
    CalcularRan =>
        \A i \in 1..Len(metricas_demograficas.rows) :
            LET g == metricas_demograficas.rows[i]
            IN  (g.clicks # 0 /\ g.impressions # 0) =>
                    /\ g.CPC = Num(HalfUp(100 * g.spent, g.clicks), 100)
                    /\ g.CPM = Num(HalfUp(100000 * g.spent, g.impressions), 100)

====
